---- MODULE Spec2Model ----
(***************************************************************************)
(* Model of the product router of the online store                         *)
(* (src/app/routers/products.py): listing with filters and pagination,     *)
(* retrieval, creation, update and soft deletion of products.              *)
(*                                                                         *)
(* The product table is a sequence of rows in id order (row i has id i).   *)
(* The category table is read by this router and never written by it.      *)
(* Optional request parameters (Python "x | None") are sets: {} is None    *)
(* and {v} is the supplied value v.                                        *)
(***************************************************************************)
EXTENDS Integers, Sequences, FiniteSets, TLC

VARIABLES products, resp, reqs

vars == <<products, resp, reqs>>

----------------------------------------------------------------------------
(* Bounds *)

\* Rows the product table may hold.
MaxProducts == 2
\* Largest page number requested.
MaxPage == 2
\* Requests in flight at the same time (SpecConc).
NumRequests == 2

----------------------------------------------------------------------------
(* Optional values *)

NoneVal == {}
Some(v) == {v}
IsSome(o) == o # {}
Val(o) == CHOOSE x \in o : TRUE

----------------------------------------------------------------------------
(* Input domains *)

Sellers == {1, 2}

\* Category rows: category 1 is active, category 2 is inactive, and no
\* category has id 3.
CategoryTable == { [id |-> 1, is_active |-> TRUE],
                   [id |-> 2, is_active |-> FALSE] }

\* Bodies of POST and PUT (ProductCreate): the fields create_product and
\* update_product copy into a row. name stands for the text fields.
Payloads == { [name |-> "a", price |-> 1, stock |-> 0, category_id |-> 1],
              [name |-> "b", price |-> 2, stock |-> 1, category_id |-> 2],
              [name |-> "b", price |-> 2, stock |-> 1, category_id |-> 3] }

\* Category ids of requests: active, inactive, missing.
CategoryIds == {1, 2, 3}

Pages == 1..MaxPage
\* page_size: Query(20, ge=1, le=100); one-row and two-row pages.
PageSizes == {1, 2}

Queries == [ page : Pages,
             page_size : PageSizes,
             category_id : {NoneVal, Some(1)},
             min_price : {NoneVal, Some(2)},
             max_price : {NoneVal, Some(1), Some(2)},
             in_stock : {NoneVal, Some(TRUE), Some(FALSE)},
             seller_id : {NoneVal, Some(1)} ]

ProductIds == 1..(MaxProducts + 1)

----------------------------------------------------------------------------
(* Statements issued to the store *)

\* Mutant: the category is looked up by id alone.
ActiveCategoryAnyState(cid) ==
    {c \in CategoryTable : c.id = cid}

\* select(CategoryModel).where(id == cid, is_active == True) ... .first()
ActiveCategory(cid) ==
    {c \in CategoryTable : c.id = cid /\ c.is_active}

\* Mutant: the product is looked up by id alone.
ActiveProductAnyState(store, pid) ==
    {store[i] : i \in {j \in DOMAIN store : store[j].id = pid}}

\* select(ProductModel).where(id == pid, is_active == True) ... .first()
ActiveProduct(store, pid) ==
    {store[i] : i \in {j \in DOMAIN store : store[j].id = pid /\ store[j].is_active}}

\* The row a new ProductModel gets when it is committed: the next id and
\* the column default of is_active.
DefaultIsActive == TRUE

NewRow(store, body, user) ==
    [id |-> Len(store) + 1,
     name |-> body.name,
     price |-> body.price,
     stock |-> body.stock,
     category_id |-> body.category_id,
     seller_id |-> user,
     is_active |-> DefaultIsActive]

\* update(ProductModel).where(id == pid).values(**body.model_dump())
UpdateValues(store, pid, body) ==
    [i \in DOMAIN store |->
        IF store[i].id = pid
        THEN [store[i] EXCEPT !.name = body.name,
                              !.price = body.price,
                              !.stock = body.stock,
                              !.category_id = body.category_id]
        ELSE store[i]]

\* update(ProductModel).where(id == pid).values(is_active=False)
UpdateInactive(store, pid) ==
    [i \in DOMAIN store |->
        IF store[i].id = pid
        THEN [store[i] EXCEPT !.is_active = FALSE]
        ELSE store[i]]

\* db.refresh(product): the row read back by primary key.
Refresh(store, pid) == store[pid]

----------------------------------------------------------------------------
(* get_all_products *)

\* Mutant: the comparison of the two bounds is inverted.
InvalidRangeInverted(q) ==
    /\ IsSome(q.min_price)
    /\ IsSome(q.max_price)
    /\ Val(q.min_price) < Val(q.max_price)

\* if (min_price is not None) and (max_price is not None)
\*     and (min_price > max_price): raise 400
InvalidRange(q) ==
    /\ IsSome(q.min_price)
    /\ IsSome(q.max_price)
    /\ Val(q.min_price) > Val(q.max_price)

\* The conjunction of the filters list. The min_price filter compares the
\* price with category_id; against NULL (category_id not supplied) the
\* comparison is not true for any row.
ListFilter(p, q) ==
    /\ p.is_active
    /\ IsSome(q.category_id) => p.category_id = Val(q.category_id)
    /\ IsSome(q.min_price) =>
          (IsSome(q.category_id) /\ p.price >= Val(q.category_id))
    /\ IsSome(q.max_price) => p.price <= Val(q.max_price)
    /\ IsSome(q.in_stock) =>
          (IF Val(q.in_stock) THEN p.stock > 0 ELSE p.stock = 0)
    /\ IsSome(q.seller_id) => p.seller_id = Val(q.seller_id)

Matching(store, q) ==
    LET Test(p) == ListFilter(p, q) IN SelectSeq(store, Test)

\* select(func.count()).select_from(ProductModel).where(*filters)
ListTotal(store, q) == Len(Matching(store, q))

Min(a, b) == IF a <= b THEN a ELSE b

\* .order_by(id).offset((page - 1) * page_size).limit(page_size)
ListItems(store, q) ==
    LET all == Matching(store, q)
        offset == (q.page - 1) * q.page_size
    IN SubSeq(all, offset + 1, Min(offset + q.page_size, Len(all)))

\* The response of GET /products/; queries counts the statements issued.
get_all_products(store, q) ==
    IF InvalidRange(q)
    THEN [op |-> "list", status |-> 400, q |-> q, queries |-> 0]
    ELSE [op |-> "list", status |-> 200, q |-> q, queries |-> 2,
          items |-> ListItems(store, q),
          total |-> ListTotal(store, q),
          page |-> q.page,
          page_size |-> q.page_size]

----------------------------------------------------------------------------
(* create_product, get_product, update_product, delete_product:            *)
(* the response and the table after the call.                              *)

create_product(store, user, body) ==
    IF ActiveCategory(body.category_id) # {}
    THEN LET row == NewRow(store, body, user)
         IN [resp |-> [op |-> "create", status |-> 201, user |-> user,
                       body |-> body, product |-> row],
             store |-> Append(store, row)]
    ELSE [resp |-> [op |-> "create", status |-> 400, user |-> user,
                    body |-> body],
          store |-> store]

get_products_by_category(store, cid) ==
    IF ActiveCategory(cid) # {}
    THEN LET Test(p) == p.is_active /\ p.category_id = cid
         IN [op |-> "by_category", status |-> 200, category_id |-> cid,
             items |-> SelectSeq(store, Test)]
    ELSE [op |-> "by_category", status |-> 404, category_id |-> cid]

get_product(store, pid) ==
    LET found == ActiveProduct(store, pid) IN
    IF found # {}
    THEN IF ActiveCategory(Val(found).category_id) # {}
         THEN [op |-> "get", status |-> 200, id |-> pid, product |-> Val(found)]
         ELSE [op |-> "get", status |-> 404, id |-> pid, detail |-> "category"]
    ELSE [op |-> "get", status |-> 404, id |-> pid, detail |-> "product"]

\* Mutant: the category of the product is checked before its owner.
update_product_category_first(store, user, pid, body) ==
    LET found == ActiveProduct(store, pid)
        fail(code) == [resp |-> [op |-> "update", status |-> code, user |-> user,
                                 id |-> pid, body |-> body],
                       store |-> store]
    IN
    IF found = {} THEN fail(404)
    ELSE IF ActiveCategory(Val(found).category_id) = {} THEN fail(400)
    ELSE IF Val(found).seller_id # user THEN fail(403)
    ELSE LET after == UpdateValues(store, pid, body)
         IN [resp |-> [op |-> "update", status |-> 200, user |-> user,
                       id |-> pid, body |-> body,
                       product |-> Refresh(after, pid)],
             store |-> after]

update_product(store, user, pid, body) ==
    LET found == ActiveProduct(store, pid)
        fail(code) == [resp |-> [op |-> "update", status |-> code, user |-> user,
                                 id |-> pid, body |-> body],
                       store |-> store]
    IN
    IF found = {} THEN fail(404)
    ELSE IF Val(found).seller_id # user THEN fail(403)
    ELSE IF ActiveCategory(Val(found).category_id) = {} THEN fail(400)
    ELSE LET after == UpdateValues(store, pid, body)
         IN [resp |-> [op |-> "update", status |-> 200, user |-> user,
                       id |-> pid, body |-> body,
                       product |-> Refresh(after, pid)],
             store |-> after]

\* Mutant: the statement that loads the product leaves out is_active.
delete_product_any_state(store, user, pid) ==
    LET found == {store[i] : i \in {j \in DOMAIN store : store[j].id = pid}}
        fail(code) == [resp |-> [op |-> "delete", status |-> code, user |-> user,
                                 id |-> pid],
                       store |-> store]
    IN
    IF found = {} THEN fail(404)
    ELSE IF Val(found).seller_id # user THEN fail(403)
    ELSE LET after == UpdateInactive(store, pid)
         IN [resp |-> [op |-> "delete", status |-> 200, user |-> user,
                       id |-> pid, product |-> Refresh(after, pid)],
             store |-> after]

delete_product(store, user, pid) ==
    LET found == ActiveProduct(store, pid)
        fail(code) == [resp |-> [op |-> "delete", status |-> code, user |-> user,
                                 id |-> pid],
                       store |-> store]
    IN
    IF found = {} THEN fail(404)
    ELSE IF Val(found).seller_id # user THEN fail(403)
    ELSE LET after == UpdateInactive(store, pid)
         IN [resp |-> [op |-> "delete", status |-> 200, user |-> user,
                       id |-> pid, product |-> Refresh(after, pid)],
             store |-> after]

----------------------------------------------------------------------------
(* Spec: one request at a time, each handler run to its response.          *)

NoResp == [op |-> "none"]
NoReqs == [r \in 1..NumRequests |-> [pc |-> "idle"]]

Idle == resp.op = "none"

Init ==
    /\ products = <<>>
    /\ resp = NoResp
    /\ reqs = NoReqs

List(q) ==
    /\ Idle
    /\ resp' = get_all_products(products, q)
    /\ UNCHANGED <<products, reqs>>

Create(user, body) ==
    /\ Idle
    /\ Len(products) < MaxProducts
    /\ LET out == create_product(products, user, body)
       IN /\ resp' = out.resp
          /\ products' = out.store
    /\ UNCHANGED reqs

ByCategory(cid) ==
    /\ Idle
    /\ resp' = get_products_by_category(products, cid)
    /\ UNCHANGED <<products, reqs>>

Get(pid) ==
    /\ Idle
    /\ resp' = get_product(products, pid)
    /\ UNCHANGED <<products, reqs>>

Update(user, pid, body) ==
    /\ Idle
    /\ LET out == update_product(products, user, pid, body)
       IN /\ resp' = out.resp
          /\ products' = out.store
    /\ UNCHANGED reqs

Delete(user, pid) ==
    /\ Idle
    /\ LET out == delete_product(products, user, pid)
       IN /\ resp' = out.resp
          /\ products' = out.store
    /\ UNCHANGED reqs

\* The response is sent and the request ends.
Respond ==
    /\ ~Idle
    /\ resp' = NoResp
    /\ UNCHANGED <<products, reqs>>

Next ==
    \/ \E q \in Queries : List(q)
    \/ \E u \in Sellers, b \in Payloads : Create(u, b)
    \/ \E cid \in CategoryIds : ByCategory(cid)
    \/ \E pid \in ProductIds : Get(pid)
    \/ \E u \in Sellers, pid \in ProductIds, b \in Payloads : Update(u, pid, b)
    \/ \E u \in Sellers, pid \in ProductIds : Delete(u, pid)
    \/ Respond

Spec == Init /\ [][Next]_vars

----------------------------------------------------------------------------
(* SpecConc: update_product and delete_product requests in flight at the   *)
(* same time, each suspending at every await (select, execute, commit,     *)
(* refresh). A statement's write is visible to the other requests when its *)
(* transaction commits.                                                    *)

Requests == 1..NumRequests

\* The table after a seller created one product in the active category.
SeedStores ==
    {create_product(<<>>, u, b).store :
        u \in Sellers, b \in {x \in Payloads : ActiveCategory(x.category_id) # {}}}

InitConc ==
    /\ products \in SeedStores
    /\ resp = NoResp
    /\ reqs = NoReqs

SetReq(r, rec) ==
    /\ reqs' = [reqs EXCEPT ![r] = rec]
    /\ UNCHANGED <<products, resp>>

StartUpdate(r, user, pid, body) ==
    /\ reqs[r].pc = "idle"
    /\ SetReq(r, [pc |-> "select_product", op |-> "update", user |-> user,
                  id |-> pid, body |-> body, product |-> NoneVal, status |-> 0])

StartDelete(r, user, pid) ==
    /\ reqs[r].pc = "idle"
    /\ SetReq(r, [pc |-> "select_product", op |-> "delete", user |-> user,
                  id |-> pid, product |-> NoneVal, status |-> 0])

\* await db.scalars(select(ProductModel)...), .first(), then the checks that
\* follow without an await: found, owner.
SelectProduct(r) ==
    /\ reqs[r].pc = "select_product"
    /\ LET found == ActiveProduct(products, reqs[r].id)
           me == reqs[r]
       IN SetReq(r,
            IF found = {}
            THEN [me EXCEPT !.pc = "done", !.status = 404]
            ELSE IF Val(found).seller_id # me.user
            THEN [me EXCEPT !.pc = "done", !.status = 403, !.product = found]
            ELSE [me EXCEPT !.product = found,
                            !.pc = IF me.op = "update" THEN "select_category"
                                                       ELSE "execute"])

\* await db.scalars(select(CategoryModel)...), on the category_id of the
\* product object loaded before.
SelectCategory(r) ==
    /\ reqs[r].pc = "select_category"
    /\ LET me == reqs[r]
       IN SetReq(r,
            IF ActiveCategory(Val(me.product).category_id) = {}
            THEN [me EXCEPT !.pc = "done", !.status = 400]
            ELSE [me EXCEPT !.pc = "execute"])

\* await db.execute(update(...)): the statement runs in the request's own
\* transaction.
Execute(r) ==
    /\ reqs[r].pc = "execute"
    /\ SetReq(r, [reqs[r] EXCEPT !.pc = "commit"])

\* await db.commit(): the write reaches the table.
Commit(r) ==
    /\ reqs[r].pc = "commit"
    /\ products' = IF reqs[r].op = "update"
                   THEN UpdateValues(products, reqs[r].id, reqs[r].body)
                   ELSE UpdateInactive(products, reqs[r].id)
    /\ reqs' = [reqs EXCEPT ![r].pc = "refresh"]
    /\ UNCHANGED resp

\* await db.refresh(product); return product
RefreshRow(r) ==
    /\ reqs[r].pc = "refresh"
    /\ SetReq(r, [reqs[r] EXCEPT !.pc = "done", !.status = 200,
                                 !.product = Some(Refresh(products, reqs[r].id))])

\* The response is sent and the request ends.
Finish(r) ==
    /\ reqs[r].pc = "done"
    /\ SetReq(r, [pc |-> "idle"])

NextConc ==
    \/ \E r \in Requests, u \in Sellers, pid \in ProductIds, b \in Payloads :
          StartUpdate(r, u, pid, b)
    \/ \E r \in Requests, u \in Sellers, pid \in ProductIds : StartDelete(r, u, pid)
    \/ \E r \in Requests : SelectProduct(r)
    \/ \E r \in Requests : SelectCategory(r)
    \/ \E r \in Requests : Execute(r)
    \/ \E r \in Requests : Commit(r)
    \/ \E r \in Requests : RefreshRow(r)
    \/ \E r \in Requests : Finish(r)

SpecConc == InitConc /\ [][NextConc]_vars

----------------------------------------------------------------------------
(* Properties of the listing (Spec)                                        *)

\* The filter predicate as the query parameters describe it: the lower
\* bound applies to the price.
StatedFilter(p, q) ==
    /\ p.is_active
    /\ IsSome(q.category_id) => p.category_id = Val(q.category_id)
    /\ IsSome(q.min_price) => p.price >= Val(q.min_price)
    /\ IsSome(q.max_price) => p.price <= Val(q.max_price)
    /\ IsSome(q.in_stock) =>
          (IF Val(q.in_stock) THEN p.stock > 0 ELSE p.stock = 0)
    /\ IsSome(q.seller_id) => p.seller_id = Val(q.seller_id)

StatedMatching(store, q) ==
    LET Test(p) == StatedFilter(p, q) IN SelectSeq(store, Test)

Listed == resp.op = "list" /\ resp.status = 200

RECURSIVE ConcatPages(_, _, _)
\* The items of pages k, k+1, ..., last of query q, one after the other.
ConcatPages(q, k, last) ==
    IF k > last THEN <<>>
    ELSE get_all_products(products, [q EXCEPT !.page = k]).items
            \o ConcatPages(q, k + 1, last)

\* C1: when List is called with min_price, every returned item has
\* price >= min_price, and total counts every active product with
\* price >= min_price that satisfies the other supplied filters.
C1_MinPriceBoundsPrice ==
    (Listed /\ IsSome(resp.q.min_price)) =>
        /\ \A k \in 1..Len(resp.items) :
              resp.items[k].price >= Val(resp.q.min_price)
        /\ resp.total = Len(StatedMatching(products, resp.q))

\* C2: the total of List is the number of active products that satisfy all
\* supplied filters, and it is the same for every page and page_size.
C2_TotalCountsMatches ==
    Listed =>
        /\ resp.total = Len(StatedMatching(products, resp.q))
        /\ \A pg \in Pages, sz \in PageSizes :
              get_all_products(products,
                  [resp.q EXCEPT !.page = pg, !.page_size = sz]).total = resp.total

\* C3: the items of List are the window of the ascending-id sequence of the
\* active products matching the filters that starts at (page-1)*page_size
\* and holds at most page_size rows; ids ascend strictly, no item is
\* inactive, and the pages 1, 2, 3, ... together list every matching product
\* exactly once.
C3_PageIsWindow ==
    Listed =>
        LET all == StatedMatching(products, resp.q)
            offset == (resp.q.page - 1) * resp.q.page_size
        IN /\ resp.items =
                 SubSeq(all, offset + 1, Min(offset + resp.q.page_size, Len(all)))
           /\ Len(resp.items) <= resp.q.page_size
           /\ \A k \in 1..(Len(resp.items) - 1) :
                 resp.items[k].id < resp.items[k + 1].id
           /\ \A k \in 1..Len(resp.items) : resp.items[k].is_active
           /\ ConcatPages(resp.q, 1, Len(products) + 1) = all

\* C9: List with min_price > max_price fails with 400 whatever the other
\* parameters are, and issues no statement to the store.
C9_InvalidRangeRejected ==
    (resp.op = "list" /\ IsSome(resp.q.min_price) /\ IsSome(resp.q.max_price)
        /\ Val(resp.q.min_price) > Val(resp.q.max_price)) =>
            (resp.status = 400 /\ resp.queries = 0)

C9_Witness ==
    /\ resp.op = "list"
    /\ resp.status = 400
    /\ IsSome(resp.q.category_id)
    /\ IsSome(resp.q.in_stock)
    /\ IsSome(resp.q.seller_id)
    /\ resp.q.page > 1
    /\ products # <<>>

----------------------------------------------------------------------------
(* Properties of the mutations (Spec)                                      *)

RowActive(store, pid) == pid \in DOMAIN store /\ store[pid].is_active

\* A handler runs in this step and answers a request for operation op.
Answers(op) == Idle /\ resp'.op = op

\* C4: a successful SoftDelete clears is_active of the product and changes
\* nothing else; the row stays in the table and stays inactive from then on;
\* List never returns an inactive product and Get of one fails with 404.
C4_SoftDeleteHides ==
    [][ /\ (Answers("delete") /\ resp'.status = 200) =>
              /\ resp'.id \in DOMAIN products
              /\ products' = [products EXCEPT ![resp'.id].is_active = FALSE]
              /\ resp'.product = products'[resp'.id]
        /\ \A i \in DOMAIN products :
              ~products[i].is_active =>
                  (i \in DOMAIN products' /\ ~products'[i].is_active)
        /\ (Answers("list") /\ resp'.status = 200) =>
              \A k \in 1..Len(resp'.items) :
                  RowActive(products', resp'.items[k].id)
        /\ (Answers("get") /\ resp'.id \in DOMAIN products'
                /\ ~products'[resp'.id].is_active) =>
              resp'.status = 404
      ]_vars

C4_Witness ==
    /\ resp.op = "get"
    /\ resp.status = 404
    /\ resp.id \in DOMAIN products
    /\ ~products[resp.id].is_active
    /\ ActiveCategory(products[resp.id].category_id) # {}

\* C5: each active product references an active category.
C5_ActiveProductActiveCategory ==
    \A i \in DOMAIN products :
        products[i].is_active => ActiveCategory(products[i].category_id) # {}

\* C6: Update of an existing active product by a user who is not its seller
\* fails with 403, whatever its category and the body, and leaves the table
\* unchanged.
C6_UpdateByOtherForbidden ==
    [][ (Answers("update") /\ RowActive(products, resp'.id)
            /\ products[resp'.id].seller_id # resp'.user) =>
                (resp'.status = 403 /\ products' = products)
      ]_vars

C6_Witness ==
    /\ resp.op = "update"
    /\ resp.status = 403
    /\ RowActive(products, resp.id)
    /\ ActiveCategory(products[resp.id].category_id) = {}

\* C7: Create with a missing or inactive category fails with 400 and leaves
\* the table unchanged; Create with an active category adds exactly one row,
\* active and owned by the acting seller.
C7_CreateChecksCategory ==
    [][ Answers("create") =>
            IF \E c \in CategoryTable :
                  c.id = resp'.body.category_id /\ c.is_active
            THEN /\ resp'.status = 201
                 /\ Len(products') = Len(products) + 1
                 /\ SubSeq(products', 1, Len(products)) = products
                 /\ products'[Len(products')].is_active
                 /\ products'[Len(products')].seller_id = resp'.user
                 /\ products'[Len(products')].category_id = resp'.body.category_id
            ELSE /\ resp'.status = 400
                 /\ products' = products
      ]_vars

C7_Witness ==
    /\ resp.op = "create"
    /\ resp.status = 400
    /\ \E c \in CategoryTable : c.id = resp.body.category_id /\ ~c.is_active
    /\ products # <<>>

\* C8: SoftDelete of a product that is already inactive fails with 404 for
\* every acting user and changes nothing; so the second of two SoftDelete
\* calls by the owner fails.
C8_SecondDeleteNotFound ==
    [][ /\ (Answers("delete") /\ RowActive(products, resp'.id)
                /\ products[resp'.id].seller_id = resp'.user) =>
                    (resp'.status = 200 /\ ~products'[resp'.id].is_active)
        /\ (Answers("delete") /\ resp'.id \in DOMAIN products
                /\ ~products[resp'.id].is_active) =>
                    (resp'.status = 404 /\ products' = products)
      ]_vars

C8_Witness ==
    /\ resp.op = "delete"
    /\ resp.status = 404
    /\ resp.id \in DOMAIN products
    /\ ~products[resp.id].is_active
    /\ products[resp.id].seller_id = resp.user

----------------------------------------------------------------------------
(* Properties of concurrent requests (SpecConc)                            *)

\* C10: no Update write changes a row whose is_active is false when the
\* write is applied, and no Update answers 200 with an inactive product.
C10_UpdateOnlyWhileActive ==
    [][ /\ \A r \in Requests :
              (reqs[r].pc = "commit" /\ reqs[r].op = "update"
                  /\ reqs'[r].pc = "refresh") =>
                      \A i \in DOMAIN products :
                          products'[i] # products[i] => products[i].is_active
        /\ \A r \in Requests :
              (reqs'[r].pc = "done" /\ reqs'[r].op = "update"
                  /\ reqs'[r].status = 200) =>
                      Val(reqs'[r].product).is_active
      ]_vars

====
